---------------------------- MODULE Spec2Model ----------------------------
(***************************************************************************)
(* Streaming synchronization engine of the AI companion backend:           *)
(*   - the sentence segmenter of LiteLLMService                            *)
(*     (generate_stream_with_sentence_chunking),                           *)
(*   - the SSE emission protocol of the chat route (generate_sse),         *)
(*   - the fire-and-forget TTS dispatch (trigger_tts_for_sentence),        *)
(*   - the per-IP sliding-window rate limiter (check_rate_limit).          *)
(* Text is a sequence of one-character strings.                            *)
(***************************************************************************)
EXTENDS Integers, Sequences, FiniteSets, TLC

VARIABLES
    \* ---- segmenter (generate_stream_with_sentence_chunking)
    sentence_buffer,    \* the local sentence_buffer
    fed,                \* history: content deltas the adapter has yielded so far
    yielded,            \* history: chunks yielded by the segmenter (segmenter run alone)
    seg_pc,             \* position of the segmenter run alone
    tasks,              \* tasks made by asyncio.create_task(on_sentence(...))
    scan_work,          \* history: characters sentence_pattern.search has examined
    \* ---- chat route (stream_chat / generate_sse)
    pc,                 \* position of the request / of generate_sse
    enable_tts,         \* request.enable_tts
    events,             \* history: SSE events sent to the caller
    response,           \* HTTP outcome of the request: "none", "429", "stream"
    retry_after,        \* seconds reported with the 429
    probes,             \* number of check_connection calls made
    gs_pc,              \* position of the adapter generate_stream
    gs_chunk_count,     \* chunk_count of generate_stream
    chunk_count,        \* chunk_count of generate_sse
    full_content,       \* full_content of generate_sse
    http_client,        \* the per-session httpx.AsyncClient: "none", "open", "closed"
    opens,              \* number of httpx.AsyncClient() constructions
    closes,             \* number of http_client.aclose() calls
    cancelled,          \* the caller's transport disconnected
    request,            \* the ChatRequest of the session
    locals,             \* locals of stream_chat that generate_sse closes over
    service,            \* process-wide singletons: LiteLLMService, CharacterManager
    raised,             \* history: exceptions raised inside generate_sse
    gs_yielded,         \* history: types of the items generate_stream yielded
    \* ---- admission gate (check_rate_limit)
    rate_limit_storage, \* client_ip -> list of timestamps
    now,                \* the clock, in seconds
    calls,              \* history: admit calls [key, time, allowed, retry]
    rate_limit_locks,   \* client_ip -> caller holding the key's lock, 0 when free
    callers,            \* concurrent admit calls: caller -> [key, st]
    stored,             \* the keys rate_limit_storage holds an entry for
    lock_keys           \* the keys rate_limit_locks holds a lock for

vars == <<sentence_buffer, fed, yielded, seg_pc, tasks, pc, enable_tts, events,
          response, retry_after, probes, gs_pc, gs_chunk_count, chunk_count,
          full_content, http_client, opens, closes, cancelled, request,
          locals, service, raised, gs_yielded,
          rate_limit_storage, now, calls, rate_limit_locks, callers,
          scan_work, stored, lock_keys>>

segVars == <<sentence_buffer, fed, yielded, seg_pc, tasks, scan_work>>
chatVars == <<pc, enable_tts, events, response, retry_after, probes, gs_pc,
              gs_chunk_count, chunk_count, full_content, http_client, opens,
              closes, cancelled, request, locals, service, raised, gs_yielded>>
\* what a session reads of its request and of the process-wide singletons
sessVars == <<request, locals, service>>
gateVars == <<rate_limit_storage, now, calls, rate_limit_locks, callers,
              stored, lock_keys>>
lockVars == <<rate_limit_locks, callers>>
\* the keys of the two dictionaries of a gate
storeVars == <<stored, lock_keys>>

----------------------------------------------------------------------------
(* Bounds of the model *)

\* content deltas fed to the segmenter when it runs alone
MaxFeeds == 3
\* content deltas one session's provider stream delivers
MaxDeltas == 3
\* admit calls in one run of the gate
MaxCalls == 4
\* last clock reading of the gate, in ticks
MaxTime == 6
\* resolution of the clock: ticks per second (datetime.now() has microseconds)
TicksPerSecond == 2
\* admit calls in flight at the same time
MaxCallers == 3
\* settings.security.rate_limit_requests (configurable, >= 1)
rate_limit_requests == 2
\* settings.security.rate_limit_window in seconds (configurable, >= 1)
rate_limit_window == 2

----------------------------------------------------------------------------
(* Text helpers *)

\* the character class [.!?;:,] of sentence_pattern
Boundary == {".", "!", "?", ";", ":", ","}
\* \s of the pattern and the characters str.strip() removes
Whitespace == {" ", "\n", "\t"}

Min(S) == CHOOSE x \in S : \A y \in S : x <= y
Max(S) == CHOOSE x \in S : \A y \in S : x >= y

RECURSIVE Concat(_)
Concat(ss) == IF ss = <<>> THEN <<>> ELSE Head(ss) \o Concat(Tail(ss))

\* str.strip(): the text without its leading and trailing whitespace
strip(s) ==
    LET keep == {i \in 1..Len(s) : s[i] \notin Whitespace}
    IN  IF keep = {} THEN <<>> ELSE SubSeq(s, Min(keep), Max(keep))

\* the text with every whitespace character removed
RemoveWhitespace(s) == SelectSeq(s, LAMBDA c : c \notin Whitespace)

\* sentence_pattern.search(buf) for the pattern [.!?;:,](?:\s|$): 0 when there is
\* no match, else match.end() of the first match (the boundary character and
\* the whitespace character after it, when there is one)
sentence_pattern_search_no_dollar(buf) ==
    LET hits == {i \in 1..Len(buf) :
                    /\ buf[i] \in Boundary
                    /\ i < Len(buf) /\ buf[i + 1] \in Whitespace}
    IN  IF hits = {} THEN 0 ELSE Min(hits) + 1

sentence_pattern_search(buf) ==
    LET hits == {i \in 1..Len(buf) :
                    /\ buf[i] \in Boundary
                    /\ (i = Len(buf) \/ buf[i + 1] \in Whitespace)}
        i == Min(hits)
    IN  IF hits = {} THEN 0
        ELSE IF i < Len(buf) THEN i + 1 ELSE i

\* the characters one sentence_pattern.search(sentence_buffer) goes over:
\* the search starts at the first character of the buffer and runs to the
\* end of the first match, or to the end of the buffer when nothing matches
Examined(buf) ==
    IF sentence_pattern_search(buf) > 0
    THEN sentence_pattern_search(buf)
    ELSE Len(buf)

----------------------------------------------------------------------------
(* Chunks of the adapter and of the segmenter *)

Chunk(t, c, n) ==
    [type |-> t, content |-> c, chunk_index |-> n,
     sentence_complete |-> FALSE, sentence |-> <<>>]

\* the chunk yielded for a flushed buffer: content "", no chunk_index
FlushChunk(s) ==
    [type |-> "content", content |-> <<>>, chunk_index |-> 0,
     sentence_complete |-> TRUE, sentence |-> s]

\* asyncio.create_task(on_sentence(sentence)): the task is only scheduled
create_task_awaited(ts, sentence) ==
    Append(ts, [sentence |-> sentence, st |-> "scheduled", awaited |-> TRUE])

create_task(ts, sentence) ==
    Append(ts, [sentence |-> sentence, st |-> "scheduled", awaited |-> FALSE])

\* the content branch of the segmenter: the new buffer, the chunk it yields and
\* the completed sentence it hands to on_sentence (at most one)
OnContent_drop_char(buf, chunk) ==
    LET b == buf \o chunk.content
        end_pos == sentence_pattern_search(b)
        completed_sentence == strip(SubSeq(b, 1, end_pos))
    IN  IF end_pos > 0
        THEN [buffer |-> SubSeq(b, end_pos + 2, Len(b)),
              out |-> [chunk EXCEPT !.sentence_complete = TRUE,
                                    !.sentence = completed_sentence],
              unit |-> <<completed_sentence>>]
        ELSE [buffer |-> b, out |-> chunk, unit |-> <<>>]

OnContent_keeps_unit(buf, chunk) ==
    LET b == buf \o chunk.content
        end_pos == sentence_pattern_search(b)
        completed_sentence == strip(SubSeq(b, 1, end_pos))
    IN  IF end_pos > 0
        THEN [buffer |-> b,
              out |-> [chunk EXCEPT !.sentence_complete = TRUE,
                                    !.sentence = completed_sentence],
              unit |-> <<completed_sentence>>]
        ELSE [buffer |-> b, out |-> chunk, unit |-> <<>>]

OnContent_whole_buffer(buf, chunk) ==
    LET b == buf \o chunk.content
        end_pos == sentence_pattern_search(b)
        completed_sentence == strip(b)
    IN  IF end_pos > 0
        THEN [buffer |-> SubSeq(b, end_pos + 1, Len(b)),
              out |-> [chunk EXCEPT !.sentence_complete = TRUE,
                                    !.sentence = completed_sentence],
              unit |-> <<completed_sentence>>]
        ELSE [buffer |-> b, out |-> chunk, unit |-> <<>>]

OnContent_no_strip(buf, chunk) ==
    LET b == buf \o chunk.content
        end_pos == sentence_pattern_search(b)
        completed_sentence == SubSeq(b, 1, end_pos)
    IN  IF end_pos > 0
        THEN [buffer |-> SubSeq(b, end_pos + 1, Len(b)),
              out |-> [chunk EXCEPT !.sentence_complete = TRUE,
                                    !.sentence = completed_sentence],
              unit |-> <<completed_sentence>>]
        ELSE [buffer |-> b, out |-> chunk, unit |-> <<>>]

OnContent(buf, chunk) ==
    LET b == buf \o chunk.content
        end_pos == sentence_pattern_search(b)
        completed_sentence == strip(SubSeq(b, 1, end_pos))
    IN  IF end_pos > 0
        THEN IF completed_sentence # <<>>
             THEN [buffer |-> SubSeq(b, end_pos + 1, Len(b)),
                   out |-> [chunk EXCEPT !.sentence_complete = TRUE,
                                         !.sentence = completed_sentence],
                   unit |-> <<completed_sentence>>]
             ELSE [buffer |-> SubSeq(b, end_pos + 1, Len(b)),
                   out |-> chunk, unit |-> <<>>]
        ELSE [buffer |-> b, out |-> chunk, unit |-> <<>>]

\* the done branch: the flushed sentence, if the buffer is not blank
OnDone_keeps_blank(buf) == IF buf # <<>> THEN <<buf>> ELSE <<>>

OnDone(buf) == IF strip(buf) # <<>> THEN <<strip(buf)>> ELSE <<>>

\* on_sentence is passed only when request.enable_tts is set
Dispatch_twice(ts, unit, on_sentence) ==
    IF on_sentence /\ unit # <<>>
    THEN create_task(create_task(ts, unit[1]), unit[1])
    ELSE ts

Dispatch_ignores_flag(ts, unit, on_sentence) ==
    IF unit # <<>> THEN create_task(ts, unit[1]) ELSE ts

Dispatch(ts, unit, on_sentence) ==
    IF on_sentence /\ unit # <<>> THEN create_task(ts, unit[1]) ELSE ts

----------------------------------------------------------------------------
(* The segmenter run alone on a stream of adapter chunks *)

Hello1 == <<"H","e","l","l","o"," ","w","o","r","l","d","."," ","H","o","w"," ","a","r","e">>
Hello2 == <<" ","y","o","u","?"," ","F","i","n","e",".">>

\* the content deltas tried: token-sized pieces, a delta with two boundaries,
\* an empty delta (content emptied by sanitize_llm_output), the two of the example
SegDeltas ==
    { <<"M">>, <<".">>, <<" ">>, <<"M", "r", ".">>, <<"a", ".", " ", "b", ",", " ">>,
      <<>>, Hello1, Hello2 }

SegStart ==
    /\ sentence_buffer = <<>>
    /\ fed = <<>>
    /\ yielded = <<>>
    /\ seg_pc = "open"
    /\ tasks = <<>>
    /\ scan_work = 0

\* a content chunk of the adapter reaches the segmenter
SegContent ==
    /\ seg_pc = "open"
    /\ Len(fed) < MaxFeeds
    /\ \E d \in SegDeltas :
        LET r == OnContent(sentence_buffer, Chunk("content", d, Len(fed) + 1))
        IN  /\ sentence_buffer' = r.buffer
            /\ yielded' = Append(yielded, r.out)
            /\ tasks' = Dispatch(tasks, r.unit, TRUE)
            /\ fed' = Append(fed, d)
            /\ scan_work' = scan_work + Examined(sentence_buffer \o d)
    /\ UNCHANGED <<seg_pc, chatVars, gateVars>>

\* the done chunk reaches the segmenter: flush, then done is passed on
SegDone ==
    /\ seg_pc = "open"
    /\ LET u == OnDone(sentence_buffer)
       IN  /\ yielded' = yielded
                         \o (IF u # <<>> THEN <<FlushChunk(u[1])>> ELSE <<>>)
                         \o <<Chunk("done", <<>>, 0)>>
           /\ tasks' = Dispatch(tasks, u, TRUE)
    /\ seg_pc' = "done"
    /\ UNCHANGED <<sentence_buffer, fed, scan_work, chatVars, gateVars>>

\* an error chunk is passed on as it is; the buffer is not flushed
SegError ==
    /\ seg_pc = "open"
    /\ yielded' = Append(yielded, Chunk("error", <<>>, 0))
    /\ seg_pc' = "error"
    /\ UNCHANGED <<sentence_buffer, fed, tasks, scan_work, chatVars, gateVars>>

\* the completed units in the order the segmenter emitted them
RECURSIVE UnitsOf(_)
UnitsOf(cs) ==
    IF cs = <<>> THEN <<>>
    ELSE (IF Head(cs).sentence_complete THEN <<Head(cs).sentence>> ELSE <<>>)
         \o UnitsOf(Tail(cs))

----------------------------------------------------------------------------
(* Admission gate: check_rate_limit *)

Keys == {"ip1", "ip2"}

\* timedelta(seconds=window_seconds) in ticks of the clock
WindowTicks == rate_limit_window * TicksPerSecond

\* the body of check_rate_limit under the key's lock: prune, check, record;
\* times are in ticks, the reported delay is int(total_seconds()), in seconds
check_rate_limit_off_by_one(storage, client_ip, t) ==
    LET window_start == t - WindowTicks
        kept == SelectSeq(storage[client_ip], LAMBDA req_time : req_time > window_start)
    IN  IF Len(kept) > rate_limit_requests
        THEN [allowed |-> FALSE, retry |-> (kept[1] - window_start) \div TicksPerSecond,
              storage |-> [storage EXCEPT ![client_ip] = kept]]
        ELSE [allowed |-> TRUE, retry |-> 0,
              storage |-> [storage EXCEPT ![client_ip] = Append(kept, t)]]

check_rate_limit_reversed(storage, client_ip, t) ==
    LET window_start == t - WindowTicks
        kept == SelectSeq(storage[client_ip], LAMBDA req_time : req_time > window_start)
    IN  IF Len(kept) >= rate_limit_requests
        THEN [allowed |-> FALSE, retry |-> (window_start - kept[1]) \div TicksPerSecond,
              storage |-> [storage EXCEPT ![client_ip] = kept]]
        ELSE [allowed |-> TRUE, retry |-> 0,
              storage |-> [storage EXCEPT ![client_ip] = Append(kept, t)]]

check_rate_limit_records_denied(storage, client_ip, t) ==
    LET window_start == t - WindowTicks
        kept == SelectSeq(storage[client_ip], LAMBDA req_time : req_time > window_start)
    IN  IF Len(kept) >= rate_limit_requests
        THEN [allowed |-> FALSE, retry |-> (kept[1] - window_start) \div TicksPerSecond,
              storage |-> [storage EXCEPT ![client_ip] = Append(Tail(kept), t)]]
        ELSE [allowed |-> TRUE, retry |-> 0,
              storage |-> [storage EXCEPT ![client_ip] = Append(kept, t)]]

check_rate_limit(storage, client_ip, t) ==
    LET window_start == t - WindowTicks
        kept == SelectSeq(storage[client_ip], LAMBDA req_time : req_time > window_start)
    IN  IF Len(kept) >= rate_limit_requests
        THEN [allowed |-> FALSE, retry |-> (kept[1] - window_start) \div TicksPerSecond,
              storage |-> [storage EXCEPT ![client_ip] = kept]]
        ELSE [allowed |-> TRUE, retry |-> 0,
              storage |-> [storage EXCEPT ![client_ip] = Append(kept, t)]]

Callers == 1..MaxCallers

\* no admit call is in flight: every lock is free
LockUnused ==
    /\ rate_limit_locks = [k \in Keys |-> 0]
    /\ callers = [c \in Callers |-> [key |-> "ip1", st |-> "unused"]]

GateStart ==
    /\ rate_limit_storage = [k \in Keys |-> <<>>]
    /\ now = 0
    /\ calls = <<>>
    /\ stored = {k \in Keys : rate_limit_storage[k] # <<>>}
    /\ lock_keys = stored
    /\ LockUnused

\* one admit call; the body holds no await, so it runs in one step
GateAdmit ==
    /\ Len(calls) < MaxCalls
    /\ \E k \in Keys :
        LET r == check_rate_limit(rate_limit_storage, k, now)
        IN  /\ rate_limit_storage' = r.storage
            /\ calls' = Append(calls, [key |-> k, time |-> now,
                                       allowed |-> r.allowed, retry |-> r.retry])
            /\ stored' = stored \cup {k}
            /\ lock_keys' = lock_keys \cup {k}
    /\ UNCHANGED <<now, lockVars, segVars, chatVars>>

\* datetime.now() moves on between calls
GateTick ==
    /\ now < MaxTime
    /\ now' = now + 1
    /\ UNCHANGED <<rate_limit_storage, calls, lockVars, storeVars, segVars,
                   chatVars>>

----------------------------------------------------------------------------
(* The chat route: stream_chat and its generator generate_sse *)

Quote == "\""
Backslash == "\\"

\* the adapter's content deltas tried in a session: token-sized pieces, one
\* delta with two boundaries and a line break (sanitize_llm_output leaves
\* line breaks in and turns a quotation mark into &quot;)
Deltas ==
    { <<"a">>, <<".">>, <<" ">>, <<"a", ".", " ", "b", ".", " ">>, <<"\n">> }

ClientIp == "ip1"

\* an Optional value: <<>> is None, <<x>> is the value x
None == <<>>
Some(x) == <<x>>

Letters ==
    {"a","b","c","d","e","f","g","h","i","j","k","l","m","n","o","p","q","r",
     "s","t","u","v","w","x","y","z","A","B","C","D","E","F","G","H","I","J",
     "K","L","M","N","O","P","Q","R","S","T","U","V","W","X","Y","Z"}
Digits == {"0","1","2","3","4","5","6","7","8","9"}
\* the class [a-zA-Z0-9/_.-] of sanitize_model_identifier
ModelChars == Letters \cup Digits \cup {"/", "_", ".", "-"}
\* the class [a-zA-Z0-9_-] of sanitize_conversation_id
ConversationChars == Letters \cup Digits \cup {"_", "-"}

\* re.match(r"^[class]+$", txt): $ matches at the end of the text and also
\* just before a newline that ends it
MatchesClassToEnd(txt, class) ==
    LET body == IF txt # <<>> /\ txt[Len(txt)] = "\n"
                THEN SubSeq(txt, 1, Len(txt) - 1) ELSE txt
    IN  body # <<>> /\ \A i \in 1..Len(body) : body[i] \in class

sanitize_model_identifier(model) ==
    IF model = <<>> THEN None
    ELSE IF ~MatchesClassToEnd(model, ModelChars) THEN None
    ELSE IF Len(model) > 100 THEN None
    ELSE Some(model)

sanitize_conversation_id(conversation_id) ==
    IF conversation_id = None \/ conversation_id[1] = <<>>
    THEN <<"d","e","f","a","u","l","t","-","s","e","s","s","i","o","n">>
    ELSE IF ~MatchesClassToEnd(conversation_id[1], ConversationChars)
    THEN <<"d","e","f","a","u","l","t","-","s","e","s","s","i","o","n">>
    ELSE IF Len(conversation_id[1]) > 50 THEN SubSeq(conversation_id[1], 1, 50)
    ELSE conversation_id[1]

\* the default of ChatRequest.conversation_id
DefaultSessionId == <<"d","e","f","a","u","l","t","-","s","e","s","s","i","o","n">>

\* str(x) of an Optional text inside an f-string
FormatOptional(x) == IF x = None THEN <<"N","o","n","e">> ELSE x[1]

\* settings.llm.active_provider, and a model another request switches to
StartupModel == <<"m", "1">>
OtherModel == <<"m", "2">>

\* the character files in characters_dir and the names stored in them
Characters == {"c1", "c2"}
CharacterName(c) == IF c = "c1" THEN "Ava" ELSE "Bob"

\* a ChatRequest that passed the field checks of the pydantic model
ChatRequest(valid, model, character_id, conversation_id) ==
    [messages_valid |-> valid, model |-> model, character_id |-> character_id,
     conversation_id |-> conversation_id]

\* the request with every optional field left out
DefaultRequest == ChatRequest(TRUE, None, None, Some(DefaultSessionId))

\* the requests tried: a well-formed model and conversation id, a model and a
\* conversation id with characters outside their classes, a null and an empty
\* conversation id, a stored and a missing character, messages that are all
\* dropped by sanitize_chat_message
Requests ==
    { DefaultRequest,
      ChatRequest(TRUE, Some(<<"o", "/", "m", "3">>), None, Some(<<"s", "-", "1">>)),
      ChatRequest(TRUE, Some(<<"m", " ", "3">>), None, Some(<<"s", " ", "1", "!">>)),
      ChatRequest(TRUE, None, None, None),
      ChatRequest(TRUE, Some(<<>>), None, Some(<<>>)),
      ChatRequest(TRUE, None, Some("c1"), Some(DefaultSessionId)),
      ChatRequest(TRUE, None, Some("zz"), Some(DefaultSessionId)),
      ChatRequest(FALSE, None, None, Some(DefaultSessionId)) }

\* the singletons as the process starts them: no active character
StartupService == [active_model |-> StartupModel, active_character |-> None]

\* model or self.active_model
ModelOrActive(model) == IF model # None THEN model[1] ELSE service.active_model

Event(t) ==
    [type |-> t, content |-> <<>>, chunk_index |-> 0, chunk_count |-> 0,
     sentence_complete |-> FALSE, sentence |-> <<>>, full_content |-> <<>>,
     offline |-> FALSE, provider |-> <<>>, character |-> None,
     conversation_id |-> <<>>]

\* the content event built from a chunk of the segmenter
ContentEvent_sentence_as_content(chunk, index) ==
    [Event("content") EXCEPT !.content = IF chunk.sentence_complete
                                         THEN chunk.sentence ELSE chunk.content,
                             !.provider = locals.stream_model,
                             !.chunk_index = index,
                             !.sentence_complete = chunk.sentence_complete,
                             !.sentence = IF chunk.sentence_complete
                                          THEN chunk.sentence ELSE <<>>]

ContentEvent(chunk, index) ==
    [Event("content") EXCEPT !.content = chunk.content,
                             !.provider = locals.stream_model,
                             !.chunk_index = index,
                             !.sentence_complete = chunk.sentence_complete,
                             !.sentence = IF chunk.sentence_complete
                                          THEN chunk.sentence ELSE <<>>]

TerminalTypes == {"done", "error", "fatal_error"}

\* windows the caller's key can have when the request arrives at time 0: empty,
\* or filled by rate_limit_requests calls at that same time
InitWindows ==
    { <<>>, [i \in 1..rate_limit_requests |-> 0] }

\* the locals of stream_chat before its body has run
NoLocals == [model |-> None, character_name |-> None, stream_model |-> <<>>]

\* the parts of the state a specification leaves alone
SegUnused ==
    /\ sentence_buffer = <<>>
    /\ fed = <<>>
    /\ yielded = <<>>
    /\ seg_pc = "unused"
    /\ tasks = <<>>
    /\ scan_work = 0

ChatUnused ==
    /\ pc = "unused"
    /\ enable_tts = FALSE
    /\ events = <<>>
    /\ response = "none"
    /\ retry_after = 0
    /\ probes = 0
    /\ gs_pc = "unused"
    /\ gs_chunk_count = 0
    /\ chunk_count = 0
    /\ full_content = <<>>
    /\ http_client = "none"
    /\ opens = 0
    /\ closes = 0
    /\ cancelled = FALSE
    /\ request = DefaultRequest
    /\ locals = NoLocals
    /\ service = StartupService
    /\ raised = 0
    /\ gs_yielded = <<>>

\* a request has arrived and nothing of it has run yet
ChatInit ==
    /\ pc = "request"
    /\ events = <<>>
    /\ response = "none"
    /\ retry_after = 0
    /\ probes = 0
    /\ gs_pc = "start"
    /\ gs_chunk_count = 0
    /\ chunk_count = 0
    /\ full_content = <<>>
    /\ http_client = "none"
    /\ opens = 0
    /\ closes = 0
    /\ cancelled = FALSE
    /\ locals = NoLocals
    /\ service = StartupService
    /\ raised = 0
    /\ gs_yielded = <<>>

Init ==
    /\ SegUnused
    /\ ChatInit
    /\ request = DefaultRequest
    /\ LockUnused
    /\ enable_tts \in BOOLEAN
    /\ \E w \in InitWindows :
         rate_limit_storage = [k \in Keys |-> IF k = ClientIp THEN w ELSE <<>>]
    /\ now = 0
    /\ calls = <<>>
    /\ stored = {k \in Keys : rate_limit_storage[k] # <<>>}
    /\ lock_keys = stored

\* a coroutine that awaited a task resumes only when the task has finished
DriverFree == \A i \in 1..Len(tasks) : tasks[i].awaited => tasks[i].st # "scheduled"

\* the body of stream_chat up to the StreamingResponse: the model validated
\* (an identifier that fails is only logged, model stays None), the character
\* loaded and made the active one, else the active character read
StreamChatBody ==
    LET load == request.character_id # None
        model == IF request.model # None /\ request.model[1] # <<>>
                 THEN sanitize_model_identifier(request.model[1]) ELSE None
    IN  IF ~request.messages_valid
        THEN [status |-> "400", locals |-> locals, service |-> service]
        ELSE IF load /\ request.character_id[1] \notin Characters
        THEN [status |-> "404", locals |-> locals, service |-> service]
        ELSE [status |-> "stream",
              locals |-> [model |-> model,
                          character_name |->
                              IF load
                              THEN Some(CharacterName(request.character_id[1]))
                              ELSE IF service.active_character # None
                              THEN Some(CharacterName(service.active_character[1]))
                              ELSE None,
                          stream_model |-> <<>>],
              service |-> IF load
                          THEN [service EXCEPT !.active_character = request.character_id]
                          ELSE service]

\* RateLimitDep is resolved before the body of stream_chat runs
Admit_after_probe ==
    /\ pc = "request"
    /\ LET r == check_rate_limit(rate_limit_storage, ClientIp, now)
           b == StreamChatBody
       IN  /\ rate_limit_storage' = r.storage
           /\ calls' = Append(calls, [key |-> ClientIp, time |-> now,
                                      allowed |-> r.allowed, retry |-> r.retry])
           /\ stored' = stored \cup {ClientIp}
           /\ lock_keys' = lock_keys \cup {ClientIp}
           /\ probes' = probes + 1
           /\ IF r.allowed
              THEN /\ response' = b.status
                   /\ pc' = IF b.status = "stream" THEN "probe" ELSE "rejected"
                   /\ locals' = b.locals
                   /\ service' = b.service
                   /\ UNCHANGED retry_after
              ELSE /\ response' = "429"
                   /\ pc' = "rejected"
                   /\ retry_after' = r.retry
                   /\ UNCHANGED <<locals, service>>
    /\ UNCHANGED <<lockVars, raised, gs_yielded, request, segVars, enable_tts,
                   events, gs_pc, gs_chunk_count, chunk_count, full_content,
                   http_client, opens, closes, cancelled, now>>

Admit ==
    /\ pc = "request"
    /\ LET r == check_rate_limit(rate_limit_storage, ClientIp, now)
           b == StreamChatBody
       IN  /\ rate_limit_storage' = r.storage
           /\ calls' = Append(calls, [key |-> ClientIp, time |-> now,
                                      allowed |-> r.allowed, retry |-> r.retry])
           /\ stored' = stored \cup {ClientIp}
           /\ lock_keys' = lock_keys \cup {ClientIp}
           /\ IF r.allowed
              THEN /\ response' = b.status
                   /\ pc' = IF b.status = "stream" THEN "probe" ELSE "rejected"
                   /\ locals' = b.locals
                   /\ service' = b.service
                   /\ UNCHANGED retry_after
              ELSE /\ response' = "429"
                   /\ pc' = "rejected"
                   /\ retry_after' = r.retry
                   /\ UNCHANGED <<locals, service>>
    /\ UNCHANGED <<lockVars, raised, gs_yielded, request, segVars, enable_tts,
                   events, probes, gs_pc, gs_chunk_count, chunk_count,
                   full_content, http_client, opens, closes, cancelled, now>>

\* check_connection reports the provider offline: one error event, then return
ProbeOffline_continues ==
    /\ pc = "probe"
    /\ probes' = probes + 1
    /\ events' = Append(events, [Event("error") EXCEPT
                                     !.offline = TRUE,
                                     !.provider = ModelOrActive(locals.model)])
    /\ pc' = "connected"
    /\ UNCHANGED <<sessVars, raised, gs_yielded, segVars, gateVars, enable_tts,
                   response, retry_after, gs_pc, gs_chunk_count, chunk_count,
                   full_content, http_client, opens, closes, cancelled>>

ProbeOffline ==
    /\ pc = "probe"
    /\ probes' = probes + 1
    /\ events' = Append(events, [Event("error") EXCEPT
                                     !.offline = TRUE,
                                     !.provider = ModelOrActive(locals.model)])
    /\ pc' = "ended"
    /\ UNCHANGED <<sessVars, raised, gs_yielded,
                   segVars, gateVars, enable_tts, response, retry_after, gs_pc,
                   gs_chunk_count, chunk_count, full_content, http_client,
                   opens, closes, cancelled>>

\* check_connection reports the provider connected: provider_connected is sent
ProbeConnected_silent ==
    /\ pc = "probe"
    /\ probes' = probes + 1
    /\ pc' = "connected"
    /\ UNCHANGED <<sessVars, raised, gs_yielded, events,
                   segVars, gateVars, enable_tts, response, retry_after, gs_pc,
                   gs_chunk_count, chunk_count, full_content, http_client,
                   opens, closes, cancelled>>

ProbeConnected ==
    /\ pc = "probe"
    /\ probes' = probes + 1
    /\ events' = Append(events, [Event("provider_connected") EXCEPT
                                     !.provider = ModelOrActive(locals.model),
                                     !.character = locals.character_name])
    /\ pc' = "connected"
    /\ UNCHANGED <<sessVars, raised, gs_yielded,
                   segVars, gateVars, enable_tts, response, retry_after, gs_pc,
                   gs_chunk_count, chunk_count, full_content, http_client,
                   opens, closes, cancelled>>

\* http_client = httpx.AsyncClient() if request.enable_tts else None; try:
\* and on to the first await of the adapter, which has read its model by then
OpenClient ==
    /\ pc = "connected"
    /\ IF enable_tts
       THEN http_client' = "open" /\ opens' = opens + 1
       ELSE UNCHANGED <<http_client, opens>>
    /\ locals' = [locals EXCEPT !.stream_model = ModelOrActive(locals.model)]
    /\ pc' = "stream"
    /\ UNCHANGED <<request, service, raised, gs_yielded,
                   segVars, gateVars, enable_tts, events, response, retry_after,
                   probes, gs_pc, gs_chunk_count, chunk_count, full_content,
                   closes, cancelled>>

\* aclose() of the session's client, when there is one
CloseClient ==
    IF http_client = "open"
    THEN http_client' = "closed" /\ closes' = closes + 1
    ELSE UNCHANGED <<http_client, closes>>

\* the provider delivers a chunk with content (and maybe a finish reason): the
\* adapter yields a content chunk, the segmenter scans its buffer and the
\* route sends one content event
StreamContent ==
    /\ pc = "stream"
    /\ DriverFree
    /\ gs_pc \in {"start", "iter"}
    /\ Len(fed) < MaxDeltas
    /\ \E d \in Deltas, finish_reason \in BOOLEAN :
        LET n == gs_chunk_count + 1
            r == OnContent(sentence_buffer, Chunk("content", d, n))
        IN  /\ gs_chunk_count' = n
            /\ fed' = Append(fed, d)
            /\ scan_work' = scan_work + Examined(sentence_buffer \o d)
            /\ sentence_buffer' = r.buffer
            /\ tasks' = Dispatch(tasks, r.unit, enable_tts)
            /\ chunk_count' = chunk_count + 1
            /\ full_content' = full_content \o r.out.content
            /\ events' = Append(events, ContentEvent(r.out, chunk_count + 1))
            /\ gs_pc' = IF finish_reason THEN "finish" ELSE "iter"
    /\ gs_yielded' = Append(gs_yielded, "content")
    /\ UNCHANGED <<sessVars, raised,
                   yielded, seg_pc, gateVars, pc, enable_tts, response,
                   retry_after, probes, http_client, opens, closes, cancelled>>

\* a provider chunk with neither content nor finish reason (the role-only
\* chunk that opens a stream) is only counted
StreamEmpty ==
    /\ pc = "stream"
    /\ DriverFree
    /\ gs_pc = "start"
    /\ gs_chunk_count' = gs_chunk_count + 1
    /\ gs_pc' = "iter"
    /\ UNCHANGED <<sessVars, raised, gs_yielded,
                   segVars, gateVars, pc, enable_tts, events, response,
                   retry_after, probes, chunk_count, full_content, http_client,
                   opens, closes, cancelled>>

\* full_content.replace('"', '\\"').replace('\n', '\\n'): the text of the
\* full_content field of the done event
RECURSIVE Escape(_)
Escape(text) ==
    IF text = <<>> THEN <<>>
    ELSE (IF Head(text) = Quote THEN <<Backslash, Quote>>
          ELSE IF Head(text) = "\n" THEN <<Backslash, "n">>
          ELSE <<Head(text)>>) \o Escape(Tail(text))

DoneEvent(count) ==
    [Event("done") EXCEPT !.chunk_count = count,
                          !.full_content = Escape(full_content),
                          !.provider = locals.stream_model,
                          !.character = locals.character_name,
                          !.conversation_id = FormatOptional(request.conversation_id)]

\* the adapter yields done (a chunk with a finish reason): the segmenter
\* flushes a non-blank buffer on a content event of its own, else done is sent
StreamFinish ==
    /\ pc = "stream"
    /\ DriverFree
    /\ gs_pc \in {"start", "iter", "finish"}
    /\ LET n == IF gs_pc = "finish" THEN gs_chunk_count ELSE gs_chunk_count + 1
           u == OnDone(sentence_buffer)
       IN  /\ gs_chunk_count' = n
           /\ gs_yielded' = Append(gs_yielded, "done")
           /\ IF u # <<>>
              THEN /\ tasks' = Dispatch(tasks, u, enable_tts)
                   /\ chunk_count' = chunk_count + 1
                   /\ events' = Append(events,
                                       ContentEvent(FlushChunk(u[1]), chunk_count + 1))
                   /\ gs_pc' = "flushed"
              ELSE /\ events' = Append(events, DoneEvent(n))
                   /\ gs_pc' = "closed"
                   /\ UNCHANGED <<tasks, chunk_count>>
    /\ UNCHANGED <<sessVars, raised,
                   sentence_buffer, fed, yielded, seg_pc, scan_work, gateVars,
                   pc,
                   enable_tts, response, retry_after, probes, full_content,
                   http_client, opens, closes, cancelled>>

\* after the flush event the segmenter yields the done chunk itself
StreamDone ==
    /\ pc = "stream"
    /\ DriverFree
    /\ gs_pc = "flushed"
    /\ events' = Append(events, DoneEvent(gs_chunk_count))
    /\ gs_pc' = "closed"
    /\ UNCHANGED <<sessVars, raised, gs_yielded,
                   segVars, gateVars, pc, enable_tts, response, retry_after,
                   probes, gs_chunk_count, chunk_count, full_content,
                   http_client, opens, closes, cancelled>>

\* acompletion or the provider stream raises: the adapter yields error, which
\* the segmenter passes on without flushing its buffer
StreamError_flushes ==
    /\ pc = "stream"
    /\ DriverFree
    /\ gs_pc \in {"start", "iter"}
    /\ gs_yielded' = Append(gs_yielded, "error")
    /\ LET u == OnDone(sentence_buffer)
       IN  IF u # <<>>
           THEN /\ tasks' = Dispatch(tasks, u, enable_tts)
                /\ chunk_count' = chunk_count + 1
                /\ events' = events
                       \o <<ContentEvent(FlushChunk(u[1]), chunk_count + 1),
                            [Event("error") EXCEPT !.provider = locals.stream_model]>>
           ELSE /\ events' = Append(events, [Event("error") EXCEPT
                                                !.provider = locals.stream_model])
                /\ UNCHANGED <<tasks, chunk_count>>
    /\ gs_pc' = "closed"
    /\ UNCHANGED <<sessVars, raised, sentence_buffer, fed, yielded, seg_pc,
                   scan_work,
                   gateVars, pc, enable_tts, response, retry_after, probes,
                   gs_chunk_count, full_content, http_client, opens, closes,
                   cancelled>>

StreamError ==
    /\ pc = "stream"
    /\ DriverFree
    /\ gs_pc \in {"start", "iter"}
    /\ gs_yielded' = Append(gs_yielded, "error")
    /\ events' = Append(events, [Event("error") EXCEPT
                                     !.provider = locals.stream_model])
    /\ gs_pc' = "closed"
    /\ UNCHANGED <<sessVars, raised,
                   segVars, gateVars, pc, enable_tts, response, retry_after,
                   probes, gs_chunk_count, chunk_count, full_content,
                   http_client, opens, closes, cancelled>>

\* the provider stream runs out without a finish reason: the async for of the
\* adapter just ends, and so do the segmenter and the loop of generate_sse
StreamEnds ==
    /\ pc = "stream"
    /\ DriverFree
    /\ gs_pc \in {"start", "iter"}
    /\ gs_pc' = "closed"
    /\ pc' = "finally"
    /\ UNCHANGED <<sessVars, raised, gs_yielded,
                   segVars, gateVars, enable_tts, events, response, retry_after,
                   probes, gs_chunk_count, chunk_count, full_content,
                   http_client, opens, closes, cancelled>>

\* after done or error the adapter has nothing more: the loop ends
LoopExit ==
    /\ pc = "stream"
    /\ DriverFree
    /\ gs_pc = "closed"
    /\ pc' = "finally"
    /\ UNCHANGED <<sessVars, raised, gs_yielded,
                   segVars, gateVars, enable_tts, events, response, retry_after,
                   probes, gs_pc, gs_chunk_count, chunk_count, full_content,
                   http_client, opens, closes, cancelled>>

\* finally: aclose() of the client; an exception of aclose() reaches the outer
\* except and is sent as fatal_error
Finally ==
    /\ pc = "finally"
    /\ DriverFree
    /\ CloseClient
    /\ \E raises \in BOOLEAN :
        IF raises /\ http_client = "open"
        THEN /\ events' = Append(events, Event("fatal_error"))
             /\ raised' = raised + 1
        ELSE UNCHANGED <<events, raised>>
    /\ pc' = "ended"
    /\ UNCHANGED <<sessVars, gs_yielded,
                   segVars, gateVars, enable_tts, response, retry_after, probes,
                   gs_pc, gs_chunk_count, chunk_count, full_content, opens,
                   cancelled>>

\* an exception that is not a provider fault, raised inside generate_sse: in
\* the handling of the probe, at the construction of the client, or inside
\* the loop, where finally closes the client first; the outer except sends
\* fatal_error and the generator returns
BodyRaises_unmanaged ==
    /\ \/ pc \in {"probe", "connected"}
       \/ pc = "stream" /\ gs_pc # "closed"
    /\ IF pc = "stream" THEN CloseClient ELSE UNCHANGED <<http_client, closes>>
    /\ raised' = raised + 1
    /\ pc' = "ended"
    /\ UNCHANGED <<sessVars, gs_yielded, segVars, gateVars, enable_tts, events,
                   response, retry_after, probes, gs_pc, gs_chunk_count,
                   chunk_count, full_content, opens, cancelled>>

BodyRaises ==
    /\ \/ pc \in {"probe", "connected"}
       \/ pc = "stream" /\ gs_pc # "closed"
    /\ IF pc = "stream" THEN CloseClient ELSE UNCHANGED <<http_client, closes>>
    /\ events' = Append(events, Event("fatal_error"))
    /\ raised' = raised + 1
    /\ pc' = "ended"
    /\ UNCHANGED <<sessVars, gs_yielded, segVars, gateVars, enable_tts,
                   response, retry_after, probes, gs_pc, gs_chunk_count,
                   chunk_count, full_content, opens, cancelled>>

Cancel_without_finally ==
    /\ pc \in {"probe", "connected", "stream"}
    /\ cancelled' = TRUE
    /\ pc' = "ended"
    /\ UNCHANGED <<sessVars, raised, gs_yielded,
                   segVars, gateVars, enable_tts, events, response, retry_after,
                   probes, gs_pc, gs_chunk_count, chunk_count, full_content,
                   opens, http_client, closes>>

\* the caller's transport disconnects while generate_sse is suspended: the
\* generator is closed, which runs finally when it is inside the try
Cancel ==
    /\ pc \in {"probe", "connected", "stream"}
    /\ cancelled' = TRUE
    /\ IF pc = "stream" THEN CloseClient ELSE UNCHANGED <<http_client, closes>>
    /\ pc' = "ended"
    /\ UNCHANGED <<sessVars, raised, gs_yielded,
                   segVars, gateVars, enable_tts, events, response, retry_after,
                   probes, gs_pc, gs_chunk_count, chunk_count, full_content,
                   opens>>

\* a scheduled on_sentence task runs trigger_tts_for_sentence: the post returns
\* a response, whose status is not looked at ("ok"), or raises or times out
\* ("failed"), as it does on a closed client; every failure is only logged
TaskRun_failure_surfaces ==
    /\ \E i \in 1..Len(tasks) :
        /\ tasks[i].st = "scheduled"
        /\ \E outcome \in {"ok", "failed"} :
            /\ http_client # "open" => outcome = "failed"
            /\ tasks' = [tasks EXCEPT ![i].st = outcome]
            /\ events' = IF outcome = "failed" /\ pc = "stream"
                         THEN Append(events, Event("fatal_error")) ELSE events
    /\ UNCHANGED <<sentence_buffer, fed, yielded, seg_pc, scan_work, gateVars,
                   pc,
                   enable_tts, response, retry_after, probes, gs_pc,
                   gs_chunk_count, chunk_count, full_content, http_client,
                   opens, closes, cancelled, request, locals, service, raised,
                   gs_yielded>>

TaskRun ==
    /\ \E i \in 1..Len(tasks) :
        /\ tasks[i].st = "scheduled"
        /\ \E outcome \in {"ok", "failed"} :
            /\ http_client # "open" => outcome = "failed"
            /\ tasks' = [tasks EXCEPT ![i].st = outcome]
    /\ UNCHANGED <<sentence_buffer, fed, yielded, seg_pc, scan_work, gateVars,
                   chatVars>>

\* LiteLLMService.switch_model on the singleton (a model without a provider
\* prefix counts as openai and is accepted)
switch_model(new_model) == [service EXCEPT !.active_model = new_model]

\* another request of the process names a character (stream_chat with a
\* character_id, or the characters route): load_character makes it the active
\* character of the one CharacterManager; the session reads the active
\* character only in the body of stream_chat
OtherLoadsCharacter ==
    /\ pc = "request"
    /\ service.active_character = None
    /\ \E c \in Characters :
        service' = [service EXCEPT !.active_character = Some(c)]
    /\ UNCHANGED <<segVars, gateVars, pc, enable_tts, events, response,
                   retry_after, probes, gs_pc, gs_chunk_count, chunk_count,
                   full_content, http_client, opens, closes, cancelled,
                   request, locals, raised, gs_yielded>>

\* another request switches the model of the one LiteLLMService; the session
\* reads active_model at the probe and again when the adapter starts
OtherSwitchesModel ==
    /\ pc \in {"request", "probe", "connected"}
    /\ service.active_model = StartupModel
    /\ service' = switch_model(OtherModel)
    /\ UNCHANGED <<segVars, gateVars, pc, enable_tts, events, response,
                   retry_after, probes, gs_pc, gs_chunk_count, chunk_count,
                   full_content, http_client, opens, closes, cancelled,
                   request, locals, raised, gs_yielded>>

DriverNext ==
    \/ Admit \/ ProbeOffline \/ ProbeConnected \/ OpenClient
    \/ StreamContent \/ StreamEmpty \/ StreamFinish \/ StreamDone
    \/ StreamError \/ StreamEnds \/ LoopExit \/ Finally

Next == DriverNext \/ BodyRaises \/ Cancel \/ TaskRun

Spec == Init /\ [][Next]_vars

\* the session under a fair scheduler: the event loop keeps running the
\* driving task and the provider keeps answering (its calls carry a timeout);
\* nothing is assumed about the synthesis tasks or the caller's transport
FairInit ==
    /\ SegUnused
    /\ ChatInit
    /\ request = DefaultRequest
    /\ LockUnused
    /\ enable_tts = TRUE
    /\ rate_limit_storage = [k \in Keys |-> <<>>]
    /\ now = 0
    /\ calls = <<>>
    /\ stored = {k \in Keys : rate_limit_storage[k] # <<>>}
    /\ lock_keys = stored

FairSpec == FairInit /\ [][Next]_vars /\ WF_vars(DriverNext)

\* a session without dispatch, for every request tried, in a process where
\* other requests load characters and switch the model
RouteInit ==
    /\ SegUnused
    /\ ChatInit
    /\ request \in Requests
    /\ LockUnused
    /\ enable_tts = FALSE
    /\ \E w \in InitWindows :
         rate_limit_storage = [k \in Keys |-> IF k = ClientIp THEN w ELSE <<>>]
    /\ now = 0
    /\ calls = <<>>
    /\ stored = {k \in Keys : rate_limit_storage[k] # <<>>}
    /\ lock_keys = stored

RouteNext ==
    \/ DriverNext \/ BodyRaises \/ Cancel
    \/ OtherLoadsCharacter \/ OtherSwitchesModel

RouteSpec == RouteInit /\ [][RouteNext]_vars

----------------------------------------------------------------------------
(* Concurrent admit calls: the key's lock around the body of check_rate_limit *)

\* async with rate_limit_locks[client_ip]: the caller enters when the lock is free
LockAcquire(c) ==
    /\ callers[c].st = "waiting"
    /\ rate_limit_locks[callers[c].key] = 0
    /\ rate_limit_locks' = [rate_limit_locks EXCEPT ![callers[c].key] = c]
    /\ callers' = [callers EXCEPT ![c].st = "holding"]
    /\ lock_keys' = lock_keys \cup {callers[c].key}
    /\ UNCHANGED <<rate_limit_storage, now, calls, stored, segVars, chatVars>>

\* the body under the lock; leaving the block releases the lock, by return
\* True as well as by the HTTPException of a denial
LockedBody_deny_keeps_lock(c) ==
    /\ callers[c].st = "holding"
    /\ LET k == callers[c].key
           r == check_rate_limit(rate_limit_storage, k, now)
       IN  /\ rate_limit_storage' = r.storage
           /\ calls' = Append(calls, [key |-> k, time |-> now,
                                      allowed |-> r.allowed, retry |-> r.retry])
           /\ stored' = stored \cup {k}
           /\ callers' = [callers EXCEPT
                              ![c].st = IF r.allowed THEN "allowed" ELSE "denied"]
           /\ rate_limit_locks' = IF r.allowed
                                  THEN [rate_limit_locks EXCEPT ![k] = 0]
                                  ELSE rate_limit_locks
    /\ UNCHANGED <<now, lock_keys, segVars, chatVars>>

LockedBody(c) ==
    /\ callers[c].st = "holding"
    /\ LET k == callers[c].key
           r == check_rate_limit(rate_limit_storage, k, now)
       IN  /\ rate_limit_storage' = r.storage
           /\ calls' = Append(calls, [key |-> k, time |-> now,
                                      allowed |-> r.allowed, retry |-> r.retry])
           /\ stored' = stored \cup {k}
           /\ callers' = [callers EXCEPT
                              ![c].st = IF r.allowed THEN "allowed" ELSE "denied"]
           /\ rate_limit_locks' = [rate_limit_locks EXCEPT ![k] = 0]
    /\ UNCHANGED <<now, lock_keys, segVars, chatVars>>

\* MaxCallers requests arrive together, each for some key, the windows empty
LockInit ==
    /\ SegUnused
    /\ ChatUnused
    /\ rate_limit_storage = [k \in Keys |-> <<>>]
    /\ now = 0
    /\ calls = <<>>
    /\ stored = {k \in Keys : rate_limit_storage[k] # <<>>}
    /\ lock_keys = stored
    /\ rate_limit_locks = [k \in Keys |-> 0]
    /\ callers \in [Callers -> [key : Keys, st : {"waiting"}]]

LockEnter == \E c \in Callers : LockAcquire(c)
LockRun == \E c \in Callers : LockedBody(c)

LockNext == LockEnter \/ LockRun \/ GateTick

\* the event loop runs every ready coroutine: a caller at a free lock enters,
\* a caller inside the block runs it to its end
LockSpec ==
    /\ LockInit
    /\ [][LockNext]_vars
    /\ \A c \in Callers : WF_vars(LockAcquire(c)) /\ WF_vars(LockedBody(c))

----------------------------------------------------------------------------
(* The gate of tts-server.py: check_rate_limit_async is the same function as
   check_rate_limit of deps.py (the lock of the key, prune, check, record),
   and a background task started at startup sweeps the two dictionaries *)

\* a pass that deletes every key
Sweep_drops_every_key ==
    /\ rate_limit_storage' = [ip \in Keys |-> <<>>]
    /\ stored' = {}
    /\ lock_keys' = {}
    /\ UNCHANGED <<now, calls, lockVars, segVars, chatVars>>

\* one pass of cleanup_stale_rate_limits after its sleep: the keys whose list
\* is empty or holds only timestamps before the threshold are deleted from
\* rate_limit_storage and from rate_limit_locks; no lock is acquired
Sweep ==
    LET stale_threshold == now - WindowTicks
        stale_ips == {ip \in stored :
                         \A i \in 1..Len(rate_limit_storage[ip]) :
                             rate_limit_storage[ip][i] < stale_threshold}
    IN  /\ rate_limit_storage' = [ip \in Keys |-> IF ip \in stale_ips THEN <<>>
                                                  ELSE rate_limit_storage[ip]]
        /\ stored' = stored \ stale_ips
        /\ lock_keys' = lock_keys \ stale_ips
        /\ UNCHANGED <<now, calls, lockVars, segVars, chatVars>>

SweepNext == LockEnter \/ LockRun \/ GateTick \/ Sweep

\* the sweep loops forever (while True: await asyncio.sleep(60)) and the clock
\* moves on
SweepSpec ==
    /\ LockInit
    /\ [][SweepNext]_vars
    /\ \A c \in Callers : WF_vars(LockAcquire(c)) /\ WF_vars(LockedBody(c))
    /\ WF_vars(Sweep)
    /\ WF_vars(GateTick)

----------------------------------------------------------------------------
(* The gate of routes/tts.py: one asyncio.Lock for all keys, no sweep *)

GlobalLock == "_rate_limit_lock"

\* the body of check_rate_limit of routes/tts.py: the entry is created when
\* absent, pruned, checked and the call recorded; no delay is reported
tts_check_rate_limit(limits, client_ip, t) ==
    LET kept == SelectSeq(limits[client_ip], LAMBDA x : t - x < WindowTicks)
    IN  IF Len(kept) >= rate_limit_requests
        THEN [allowed |-> FALSE, retry |-> 0,
              storage |-> [limits EXCEPT ![client_ip] = kept]]
        ELSE [allowed |-> TRUE, retry |-> 0,
              storage |-> [limits EXCEPT ![client_ip] = Append(kept, t)]]

\* async with _rate_limit_lock: entered when the one lock is free
TtsLockAcquire(c) ==
    /\ callers[c].st = "waiting"
    /\ rate_limit_locks[GlobalLock] = 0
    /\ rate_limit_locks' = [rate_limit_locks EXCEPT ![GlobalLock] = c]
    /\ callers' = [callers EXCEPT ![c].st = "holding"]
    /\ UNCHANGED <<rate_limit_storage, now, calls, storeVars, segVars, chatVars>>

TtsLockedBody(c) ==
    /\ callers[c].st = "holding"
    /\ LET k == callers[c].key
           r == tts_check_rate_limit(rate_limit_storage, k, now)
       IN  /\ rate_limit_storage' = r.storage
           /\ calls' = Append(calls, [key |-> k, time |-> now,
                                      allowed |-> r.allowed, retry |-> r.retry])
           /\ stored' = stored \cup {k}
           /\ callers' = [callers EXCEPT
                              ![c].st = IF r.allowed THEN "allowed" ELSE "denied"]
           /\ rate_limit_locks' = [rate_limit_locks EXCEPT ![GlobalLock] = 0]
    /\ UNCHANGED <<now, lock_keys, segVars, chatVars>>

\* MaxCallers requests arrive together, each for some key; _rate_limits is empty
TtsRouteInit ==
    /\ SegUnused
    /\ ChatUnused
    /\ rate_limit_storage = [k \in Keys |-> <<>>]
    /\ now = 0
    /\ calls = <<>>
    /\ stored = {}
    /\ lock_keys = {}
    /\ rate_limit_locks = [l \in {GlobalLock} |-> 0]
    /\ callers \in [Callers -> [key : Keys, st : {"waiting"}]]

TtsLockEnter == \E c \in Callers : TtsLockAcquire(c)
TtsLockRun == \E c \in Callers : TtsLockedBody(c)

TtsRouteNext == TtsLockEnter \/ TtsLockRun \/ GateTick

TtsRouteSpec ==
    /\ TtsRouteInit
    /\ [][TtsRouteNext]_vars
    /\ \A c \in Callers : WF_vars(TtsLockAcquire(c)) /\ WF_vars(TtsLockedBody(c))

----------------------------------------------------------------------------
(* The segmenter alone, and the gate alone *)

SegInit == SegStart /\ ChatUnused /\ GateStart

SegNext == SegContent \/ SegDone \/ SegError

SegSpec == SegInit /\ [][SegNext]_vars

GateInit == GateStart /\ SegUnused /\ ChatUnused

GateNext == GateAdmit \/ GateTick

GateSpec == GateInit /\ [][GateNext]_vars

\* the gate of deps.py with a clock that keeps moving: nothing but admit calls
\* touches rate_limit_storage and rate_limit_locks
GateFairSpec == GateInit /\ [][GateNext]_vars /\ WF_vars(GateTick)

----------------------------------------------------------------------------
(* Properties *)

ContentEvents == SelectSeq(events, LAMBDA e : e.type = "content")
TerminalEvents == SelectSeq(events, LAMBDA e : e.type \in TerminalTypes)

RECURSIVE ContentsOf(_)
ContentsOf(es) ==
    IF es = <<>> THEN <<>> ELSE <<Head(es).content>> \o ContentsOf(Tail(es))

IsPrefix(a, b) == Len(a) <= Len(b) /\ SubSeq(b, 1, Len(a)) = a

EndsWithBoundary(d) == d # <<>> /\ d[Len(d)] \in Boundary

\* no boundary character of s is followed by whitespace
NoInnerBoundary(s) ==
    \A i \in 1..(Len(s) - 1) : ~(s[i] \in Boundary /\ s[i + 1] \in Whitespace)

\* C1 as claimed: a session that was admitted and ran to its end without the
\* caller disconnecting has sent exactly one terminal event (done, error or
\* fatal_error), and that event is the last one sent.
C1_ExactlyOneTerminalEventLast ==
    (pc = "ended" /\ response = "stream" /\ ~cancelled)
        => /\ Len(TerminalEvents) = 1
           /\ events[Len(events)].type \in TerminalTypes

\* C2 as claimed: when the stream has ended normally, the completed units,
\* concatenated in order, are exactly the concatenation of the content deltas.
C2_UnitsReconstructInputExactly ==
    seg_pc = "done" => Concat(UnitsOf(yielded)) = Concat(fed)

\* C2 as amended: when the stream has ended normally, the completed units,
\* concatenated in order, differ from the concatenation of the content deltas
\* only by whitespace: with whitespace removed the two texts are equal,
\* whatever the chunking of the text into deltas was.
C2_UnitsReconstructInputUpToWhitespace ==
    seg_pc = "done" =>
        RemoveWhitespace(Concat(UnitsOf(yielded))) = RemoveWhitespace(Concat(fed))

C2_Witness ==
    /\ seg_pc = "done"
    /\ Len(fed) >= 2
    /\ Len(UnitsOf(yielded)) >= 2
    /\ Concat(UnitsOf(yielded)) # Concat(fed)

C4_ExampleUnitsKeepLeadingSpace ==
    (seg_pc = "done" /\ fed = <<Hello1, Hello2>>)
        => UnitsOf(yielded) =
            << <<"H","e","l","l","o"," ","w","o","r","l","d",".">>,
               <<" ","H","o","w"," ","a","r","e"," ","y","o","u","?">>,
               <<"F","i","n","e",".">> >>

\* C4 as amended: the deltas "Hello world. How are" and " you? Fine." followed
\* by done yield exactly the three units "Hello world.", "How are you?" and
\* "Fine." in this order (every unit is trimmed, so the second one has no
\* leading space).
C4_ExampleUnitsTrimmed ==
    (seg_pc = "done" /\ fed = <<Hello1, Hello2>>)
        => UnitsOf(yielded) =
            << <<"H","e","l","l","o"," ","w","o","r","l","d",".">>,
               <<"H","o","w"," ","a","r","e"," ","y","o","u","?">>,
               <<"F","i","n","e",".">> >>

C4_Witness ==
    /\ seg_pc = "done"
    /\ fed = <<Hello1, Hello2>>
    /\ Len(UnitsOf(yielded)) = 3

\* C5: the driving task never waits for a synthesis call: a dispatched task
\* is only scheduled, never awaited, and as long as the session has not ended
\* the driving task has a step it can take (consume the next adapter item and
\* send its event, or leave the loop and close), whatever the state of the
\* synthesis tasks, also when none of them ever runs or finishes.
C5_DriverNeverWaitsForSynthesis ==
    /\ \A i \in 1..Len(tasks) : ~tasks[i].awaited
    /\ pc \notin {"ended", "rejected"} => ENABLED DriverNext

\* under a fair scheduler for the driving task alone, with no synthesis task
\* ever obliged to run, every session reaches its end (checked under FairSpec)
SessionEndsWithoutSynthesisProgress == <>(pc \in {"ended", "rejected"})

C5_Witness ==
    /\ pc = "ended"
    /\ ~cancelled
    /\ Len(ContentEvents) >= 2
    /\ events[Len(events)].type = "done"
    /\ Len(tasks) >= 2
    /\ \A i \in 1..Len(tasks) : tasks[i].st = "scheduled"

\* C6: among the admit calls of one key, a call whose earlier calls of the key
\* all lie inside the window that ends at the call is allowed exactly when
\* fewer than rate_limit_requests such calls came before it (the first
\* rate_limit_requests of a burst are allowed, every further one is denied);
\* and a call is allowed whenever every earlier allowed call of the key is at
\* least rate_limit_window seconds old (times are in ticks of the clock).
C6_BurstAllowedUpToLimitThenDeniedUntilWindowElapses ==
    \A j \in 1..Len(calls) :
        LET prior == {i \in 1..(j - 1) : calls[i].key = calls[j].key}
            window_start == calls[j].time - WindowTicks
        IN  /\ (\A i \in prior : calls[i].time > window_start)
                => (calls[j].allowed <=> Cardinality(prior) < rate_limit_requests)
            /\ (\A i \in prior : calls[i].allowed => calls[i].time <= window_start)
                => calls[j].allowed

C6_Witness ==
    /\ Len(calls) = rate_limit_requests + 2
    /\ \A j \in 1..Len(calls) : calls[j].key = "ip1"
    /\ \A j \in 1..rate_limit_requests : calls[j].allowed
    /\ ~calls[rate_limit_requests + 1].allowed
    /\ calls[rate_limit_requests + 1].time - calls[1].time < WindowTicks
    /\ calls[rate_limit_requests + 2].allowed
    /\ calls[rate_limit_requests + 2].time
         >= calls[rate_limit_requests].time + WindowTicks

\* C7: a request that check_rate_limit denies is answered 429 and nothing of a
\* session happens for it: no event is sent, no probe is made, no client is
\* opened and no synthesis task is scheduled; and whenever anything of a
\* session has happened, the request was admitted before.
C7_DenyHappensBeforeAnySessionActivity ==
    /\ (calls # <<>> /\ ~calls[Len(calls)].allowed)
         => /\ response = "429"
            /\ pc = "rejected"
            /\ retry_after = calls[Len(calls)].retry
    /\ response = "429"
         => (events = <<>> /\ probes = 0 /\ opens = 0 /\ tasks = <<>> /\ fed = <<>>)
    /\ (events # <<>> \/ probes > 0 \/ opens > 0 \/ tasks # <<>>)
         => (response = "stream" /\ calls # <<>> /\ calls[Len(calls)].allowed)

C7_Witness ==
    /\ response = "429"
    /\ pc = "rejected"
    /\ calls # <<>>
    /\ ~calls[Len(calls)].allowed
    /\ retry_after > 0

\* C8 as claimed: every content event that carries a completed unit is the
\* event of a delta (not an event of its own), that delta supplied the
\* boundary character that closes the unit (not an earlier delta), and the
\* unit does not run ahead of the content sent so far.
C8_UnitRidesOnTheDeltaThatClosedIt ==
    \A j \in 1..Len(ContentEvents) :
        ContentEvents[j].sentence_complete =>
            LET unitsLen == Len(RemoveWhitespace(Concat(UnitsOf(SubSeq(ContentEvents, 1, j)))))
                before == Len(RemoveWhitespace(Concat(SubSeq(fed, 1, j - 1))))
                upto == Len(RemoveWhitespace(Concat(ContentsOf(SubSeq(ContentEvents, 1, j)))))
            IN  /\ j <= Len(fed)
                /\ unitsLen > before
                /\ unitsLen <= upto

\* C8 as amended: every completed unit is carried by a content event and never
\* runs ahead of the content sent so far (the units sent, with whitespace
\* removed, are a prefix of the content sent, with whitespace removed). The
\* carrying event is the event of the delta that closed the unit only for the
\* first unit pending in the buffer: a further unit closed by the same delta
\* rides on a later delta's event, and the unit flushed at end-of-input rides
\* on a content event of its own with empty content, the last content event.
C8_UnitRidesOnAContentEventNeverAhead ==
    \A j \in 1..Len(ContentEvents) :
        ContentEvents[j].sentence_complete =>
            /\ IsPrefix(
                 RemoveWhitespace(Concat(UnitsOf(SubSeq(ContentEvents, 1, j)))),
                 RemoveWhitespace(Concat(ContentsOf(SubSeq(ContentEvents, 1, j)))))
            /\ ContentEvents[j].sentence # <<>>
            /\ j > Len(fed) => /\ j = Len(ContentEvents)
                               /\ j = Len(fed) + 1
                               /\ ContentEvents[j].content = <<>>

\* a unit on a later delta's event, and a flushed unit on an event of its own
C8_Witness ==
    /\ Len(fed) = 2
    /\ Len(ContentEvents) = 3
    /\ \A j \in 1..3 : ContentEvents[j].sentence_complete
    /\ Len(RemoveWhitespace(Concat(UnitsOf(SubSeq(ContentEvents, 1, 2)))))
         <= Len(RemoveWhitespace(fed[1]))
    /\ events[Len(events)].type = "done"

\* C9: the content events of a session are, in order, one per content delta
\* the adapter yielded, each carrying that delta's text unchanged and the next
\* chunk_index, whether or not the delta closed a unit; the only other
\* content event is the empty-content event of the flush, after all of them.
C9_OneContentEventPerDeltaInOrder ==
    /\ Len(ContentEvents) \in {Len(fed), Len(fed) + 1}
    /\ \A j \in 1..Len(fed) :
        /\ ContentEvents[j].content = fed[j]
        /\ ContentEvents[j].chunk_index = j
    /\ Len(ContentEvents) = Len(fed) + 1
         => /\ ContentEvents[Len(fed) + 1].content = <<>>
            /\ ContentEvents[Len(fed) + 1].sentence_complete
            /\ gs_pc \in {"flushed", "closed"}

C9_Witness ==
    /\ pc = "ended"
    /\ Len(fed) = 3
    /\ Len(ContentEvents) = 3
    /\ ~ContentEvents[1].sentence_complete
    /\ ContentEvents[2].sentence_complete
    /\ ContentEvents[2].content # ContentEvents[2].sentence
    /\ events[Len(events)].type = "done"

\* C10: a session opens its synthesis client at most once, and only with
\* dispatch enabled; the client is never closed more often than opened, is
\* open only while generate_sse is inside its try block, and when the session
\* has ended on any path (done, error, fatal_error, disconnect) every opened
\* client has been closed exactly once.
C10_ClientOpenedAtMostOnceClosedExactlyOnce ==
    /\ opens <= 1
    /\ closes <= opens
    /\ (~enable_tts => opens = 0)
    /\ (http_client = "open" <=> (opens = 1 /\ closes = 0))
    /\ (http_client = "open" => pc \in {"stream", "finally"})
    /\ (pc = "ended" => (closes = opens /\ http_client # "open"))

\* a disconnect in mid-stream, after content was sent, with the client closed
C10_Witness ==
    /\ pc = "ended"
    /\ cancelled
    /\ Len(ContentEvents) >= 1
    /\ Len(TerminalEvents) = 0
    /\ opens = 1
    /\ closes = 1
    /\ http_client = "closed"

\* C11: the outcome of a synthesis call never reaches the caller: a step in
\* which a dispatched call finishes, with a response or with an exception or
\* timeout, changes nothing but that task's own state (the events sent, the
\* position of the session, the adapter, the buffer and the count of raised
\* exceptions stay as they are), a finished call is never run again, and no
\* call is ever added or removed by such a step.
C11_SynthesisOutcomeNeverReachesCaller ==
    [][(\E i \in 1..Len(tasks) : tasks[i].st = "scheduled"
                                   /\ Len(tasks') = Len(tasks)
                                   /\ tasks'[i].st # "scheduled")
         => /\ UNCHANGED <<events, pc, gs_pc, raised, response, sentence_buffer,
                           fed, chunk_count, full_content, http_client, closes>>
            /\ \A j \in 1..Len(tasks) :
                 /\ tasks'[j].sentence = tasks[j].sentence
                 /\ tasks[j].st # "scheduled" => tasks'[j] = tasks[j]]_vars

\* a session that ended with done although one of its calls failed
C11_Witness ==
    /\ pc = "ended"
    /\ ~cancelled
    /\ raised = 0
    /\ events[Len(events)].type = "done"
    /\ \E i \in 1..Len(tasks) : tasks[i].st = "failed"
    /\ \E i \in 1..Len(tasks) : tasks[i].st = "ok"

\* C12: when the probe reports the provider offline, the session sends one
\* error event marked provider_offline and ends: that event is the only event
\* (no provider_connected, no content), the adapter was never started, no
\* client was opened and no unit was dispatched.
C12_ProviderOfflineEndsTheSession ==
    \A i \in 1..Len(events) :
        events[i].offline =>
            /\ events = <<events[i]>>
            /\ events[i].type = "error"
            /\ pc = "ended"
            /\ probes = 1
            /\ gs_pc = "start" /\ gs_yielded = <<>> /\ fed = <<>>
            /\ opens = 0 /\ http_client = "none"
            /\ tasks = <<>>

C12_Witness ==
    /\ pc = "ended"
    /\ response = "stream"
    /\ enable_tts
    /\ Len(events) = 1
    /\ events[1].offline
    /\ events[1].type = "error"

\* C13 as claimed: when the item sequence of generate_stream has finished, its
\* last item is a done or an error item, and it is the only such item.
C13_AdapterSequenceNeverEndsSilently ==
    gs_pc = "closed" =>
        /\ gs_yielded # <<>>
        /\ gs_yielded[Len(gs_yielded)] \in {"done", "error"}
        /\ \A i \in 1..(Len(gs_yielded) - 1) : gs_yielded[i] = "content"

\* C14: an exception raised inside generate_sse that is not a provider fault
\* (in the handling of the probe, in the loop, in the release of the client)
\* is sent as a fatal_error event, the last event of the stream, after which
\* the generator has ended with the client released; fatal_error is sent for
\* nothing else, and the provider's own failures arrive as error events
\* (marked provider_offline from the probe, or the adapter's error item).
C14_UnhandledExceptionSurfacesAsFatalError ==
    /\ raised <= 1
    /\ raised = 1 => /\ pc = "ended"
                     /\ events # <<>>
                     /\ events[Len(events)].type = "fatal_error"
                     /\ http_client # "open"
    /\ \A i \in 1..Len(events) :
        /\ events[i].type = "fatal_error" => (i = Len(events) /\ raised = 1)
        /\ events[i].type = "error" =>
             \/ events[i].offline
             \/ (gs_yielded # <<>> /\ gs_yielded[Len(gs_yielded)] = "error")

\* an exception in mid-stream, after content was sent, with the client released
C14_Witness ==
    /\ raised = 1
    /\ pc = "ended"
    /\ Len(ContentEvents) >= 1
    /\ Len(TerminalEvents) = 1
    /\ events[Len(events)].type = "fatal_error"
    /\ opens = 1 /\ closes = 1

\* the patterns ^[A-Za-z0-9/_.-]{1,100}$ and ^[A-Za-z0-9_-]{1,50}$, matched
\* against the whole text
MatchesModelPattern(txt) ==
    Len(txt) \in 1..100 /\ \A i \in 1..Len(txt) : txt[i] \in ModelChars
MatchesConversationPattern(txt) ==
    Len(txt) \in 1..50 /\ \A i \in 1..Len(txt) : txt[i] \in ConversationChars

\* C15 as claimed: a request whose model identifier is present and does not
\* match the pattern is rejected before admission: nothing of a session
\* happens for it (no stream response, no probe, no event) and the window of
\* the caller's key is left as it was (no admit call is recorded).
C15_InvalidModelRejectedBeforeAdmission ==
    (request.model # None /\ ~MatchesModelPattern(request.model[1]))
        => /\ response # "stream"
           /\ probes = 0
           /\ events = <<>>
           /\ calls = <<>>
           /\ rate_limit_storage[ClientIp] \in InitWindows

\* C16 as claimed: the conversation identifier of a done event is the
\* identifier of the request when that matches the pattern, and
\* "default-session" in every other case.
C16_DoneReportsSanitizedConversationId ==
    \A i \in 1..Len(events) :
        events[i].type = "done" =>
            events[i].conversation_id =
                IF /\ request.conversation_id # None
                   /\ MatchesConversationPattern(request.conversation_id[1])
                THEN request.conversation_id[1]
                ELSE DefaultSessionId

\* what the events of the session carry when no other request is made: the
\* character named by the request, else the startup one (none), and the
\* model of the request when it is a valid one, else the startup model
BaselineCharacter ==
    IF request.character_id # None
    THEN Some(CharacterName(request.character_id[1])) ELSE None
BaselineProvider ==
    IF request.model # None /\ sanitize_model_identifier(request.model[1]) # None
    THEN request.model[1] ELSE StartupModel

\* C17 as claimed: the events of a session are the same whatever other
\* requests do: the character of its provider_connected and done events and
\* the provider of its events are those of the run in which no other request
\* is made.
C17_EventsIndependentOfOtherSessions ==
    \A i \in 1..Len(events) :
        /\ events[i].type \in {"provider_connected", "done"}
             => events[i].character = BaselineCharacter
        /\ events[i].type # "fatal_error"
             => events[i].provider = BaselineProvider

\* C18 as claimed: when an admit call of a key is denied at time t with the
\* delay r, a later call of the key at a time >= t + r, with no call of the
\* key admitted in between, is allowed.
C18_DenialRecoverableAfterReportedDelay ==
    \A i \in 1..Len(calls) : \A j \in (i + 1)..Len(calls) :
        ( /\ calls[i].key = calls[j].key
          /\ ~calls[i].allowed
          /\ calls[j].time >= calls[i].time + calls[i].retry * TicksPerSecond
          /\ \A m \in (i + 1)..(j - 1) :
                calls[m].key = calls[i].key => ~calls[m].allowed )
        => calls[j].allowed

\* the callers of key k
CallersOf(k) == {c \in Callers : callers[c].key = k}

\* a lock is held only by a caller that is inside the block of its own key,
\* so a caller that has returned, allowed or denied, holds no lock; and when
\* at most rate_limit_requests calls of a key arrive, none of them is denied
LockReleasedAndBurstAllowed ==
    /\ \A k \in Keys :
        rate_limit_locks[k] # 0 =>
            /\ callers[rate_limit_locks[k]].st = "holding"
            /\ callers[rate_limit_locks[k]].key = k
    /\ \A c \in Callers :
        callers[c].st = "holding" => rate_limit_locks[callers[c].key] = c
    /\ \A k \in Keys :
        Cardinality(CallersOf(k)) <= rate_limit_requests
            => \A c \in CallersOf(k) : callers[c].st # "denied"

\* C19: concurrent admit calls do not block one another: whatever the keys of
\* the calls, every call returns allow or deny in the end, the key's lock is
\* free again after an allow as well as after a deny, and when at most
\* rate_limit_requests calls of a key arrive together all of them are allowed.
C19_ConcurrentAdmitCallsAllReturn ==
    /\ []LockReleasedAndBurstAllowed
    /\ <>(\A c \in Callers : callers[c].st \in {"allowed", "denied"})

\* three calls of one key at the same time: two allowed, one denied, all back
C19_Witness ==
    /\ \A c \in Callers : callers[c].key = "ip1"
    /\ \A c \in Callers : callers[c].st \in {"allowed", "denied"}
    /\ Cardinality({c \in Callers : callers[c].st = "denied"}) = 1
    /\ \A k \in Keys : rate_limit_locks[k] = 0
    /\ now = 0

\* the number of content events that carry a completed unit
UnitEvents == SelectSeq(ContentEvents, LAMBDA e : e.sentence_complete)

\* C20: when the adapter yields its error item after streaming began, the
\* error event is sent at once and the unflushed buffer is dropped: no content
\* event is sent for the leftover text (the content events are exactly those
\* of the deltas, as sent before the fault) and no synthesis call is
\* dispatched for it; no content event follows the error event.
C20_FaultDiscardsUnflushedBuffer ==
    \A i \in 1..Len(events) :
        (events[i].type = "error" /\ ~events[i].offline) =>
            /\ gs_pc = "closed"
            /\ gs_yielded[Len(gs_yielded)] = "error"
            /\ Len(ContentEvents) = Len(fed)
            /\ \A j \in 1..Len(fed) : ContentEvents[j].content = fed[j]
            /\ \A j \in 1..Len(events) : events[j].type = "content" => j < i
            /\ Len(tasks) = IF enable_tts THEN Len(UnitEvents) ELSE 0
            /\ \A j \in 1..Len(tasks) : tasks[j].sentence = UnitEvents[j].sentence

\* a fault with text left in the buffer, after a unit was sent and dispatched
C20_Witness ==
    /\ events # <<>>
    /\ events[Len(events)].type = "error"
    /\ ~events[Len(events)].offline
    /\ strip(sentence_buffer) # <<>>
    /\ Len(ContentEvents) >= 2
    /\ Len(UnitEvents) = 1
    /\ Len(tasks) = 1

\* the content event of a flush: no delta text, the flushed unit
IsFlushEvent(e) ==
    /\ e.type = "content"
    /\ e.content = <<>>
    /\ e.sentence_complete
    /\ e.sentence = strip(sentence_buffer)

\* C21: at the adapter's normal end the buffer is flushed exactly once.  A
\* buffer that is not blank is sent as one final unit (trimmed) on a content
\* event of its own right before done, and its synthesis call is scheduled
\* before done is sent when dispatch is enabled; a blank buffer sends nothing
\* and dispatches nothing; done follows in both cases.
C21_FlushExactlyOnceThenDone ==
    /\ Len(ContentEvents) <= Len(fed) + 1
    /\ (pc = "stream" /\ gs_pc = "flushed") =>
            /\ ENABLED StreamDone
            /\ strip(sentence_buffer) # <<>>
            /\ IsFlushEvent(events[Len(events)])
            /\ Len(ContentEvents) = Len(fed) + 1
            /\ enable_tts =>
                   /\ tasks # <<>>
                   /\ tasks[Len(tasks)].sentence = strip(sentence_buffer)
    /\ \A i \in 1..Len(events) :
        events[i].type = "done" =>
            IF strip(sentence_buffer) # <<>>
            THEN /\ i > 1
                 /\ IsFlushEvent(events[i - 1])
                 /\ Len(ContentEvents) = Len(fed) + 1
                 /\ Len(tasks) = IF enable_tts THEN Len(UnitEvents) ELSE 0
                 /\ enable_tts =>
                        tasks[Len(tasks)].sentence = strip(sentence_buffer)
            ELSE /\ Len(ContentEvents) = Len(fed)
                 /\ \A j \in 1..Len(fed) : ContentEvents[j].content = fed[j]
                 /\ Len(tasks) = IF enable_tts THEN Len(UnitEvents) ELSE 0

\* a session that ended normally with text left over: the flush event, its
\* dispatched call, then done; and one that ended with a blank buffer
C21_Witness ==
    /\ pc = "ended"
    /\ Len(events) >= 3
    /\ events[Len(events)].type = "done"
    /\ IsFlushEvent(events[Len(events) - 1])
    /\ sentence_buffer = <<"a">>
    /\ enable_tts
    /\ tasks # <<>>
    /\ tasks[Len(tasks)].sentence = <<"a">>

\* the positions of the events of one type
PositionsOf(t) == {i \in 1..Len(events) : events[i].type = t}

\* C22: the session protocol only moves forward, INIT -> CONNECTED ->
\* STREAMING -> TERMINAL.  provider_connected is sent at most once, only after
\* a probe that found the provider, and before every content event; no
\* content event is sent without it; once a terminal event was sent, neither
\* provider_connected nor a content event follows.
C22_ProtocolOnlyMovesForward ==
    /\ Cardinality(PositionsOf("provider_connected")) <= 1
    /\ PositionsOf("provider_connected") \subseteq {1}
    /\ PositionsOf("provider_connected") # {} =>
           /\ probes = 1
           /\ \A i \in 1..Len(events) : ~events[i].offline
    /\ PositionsOf("content") # {} =>
           /\ PositionsOf("provider_connected") = {1}
           /\ \A i \in PositionsOf("content") : i > 1
    /\ \A i \in 1..Len(events) :
        events[i].type \in TerminalTypes =>
            \A j \in (i + 1)..Len(events) :
                events[j].type \notin {"provider_connected", "content"}
    /\ pc \in {"request", "probe"} => events = <<>>
    /\ pc \in {"connected", "stream"} => PositionsOf("provider_connected") = {1}

\* a session that went through all four stages
C22_Witness ==
    /\ pc = "ended"
    /\ Len(events) = 4
    /\ events[1].type = "provider_connected"
    /\ events[2].type = "content"
    /\ events[3].type = "content"
    /\ events[4].type = "done"

\* C23: dispatch is at most once per unit.  With dispatch enabled exactly one
\* synthesis task is scheduled for each completed unit, the flushed one
\* included, in the order of the units and carrying the unit's text; with
\* dispatch disabled none is.  A task is scheduled only in the step that sends
\* its unit, and a call that ran (failed ones included) is never issued
\* again: it keeps its text and its outcome.
C23_OneDispatchPerUnitNeverRepeated ==
    /\ [](/\ Len(tasks) = IF enable_tts THEN Len(UnitEvents) ELSE 0
          /\ \A j \in 1..Len(tasks) : tasks[j].sentence = UnitEvents[j].sentence)
    /\ [][/\ Len(tasks') \in {Len(tasks), Len(tasks) + 1}
          /\ \A j \in 1..Len(tasks) :
                /\ tasks'[j].sentence = tasks[j].sentence
                /\ tasks[j].st \in {"ok", "failed"} => tasks'[j] = tasks[j]
          /\ Len(tasks') = Len(tasks) + 1 =>
                /\ tasks'[Len(tasks')].st = "scheduled"
                /\ Len(events') = Len(events) + 1
                /\ events'[Len(events')].sentence_complete
                /\ events'[Len(events')].sentence = tasks'[Len(tasks')].sentence]_vars

\* three units, the last one flushed, each dispatched once; the first call
\* failed and the session went on to done
C23_Witness ==
    /\ enable_tts
    /\ Len(UnitEvents) = 3
    /\ Len(tasks) = 3
    /\ tasks[1].st = "failed"
    /\ tasks[3].sentence = strip(sentence_buffer)
    /\ events[Len(events)].type = "done"

\* the calls of call i's key that were let in before it and are still inside
\* the window at the time of call i: the timestamps kept after pruning
KeptBefore(i) ==
    {calls[j].time : j \in {m \in 1..(i - 1) :
                               /\ calls[m].key = calls[i].key
                               /\ calls[m].allowed
                               /\ calls[m].time > calls[i].time - WindowTicks}}

\* C27 as stated: on a deny at time now the reported delay equals
\* window_start - oldest_timestamp, with window_start = now - window_seconds
\* and oldest_timestamp the earliest timestamp kept after pruning.
C27_RetryIsWindowStartMinusOldest ==
    \A i \in 1..Len(calls) :
        ~calls[i].allowed =>
            calls[i].retry * TicksPerSecond
                = (calls[i].time - WindowTicks) - Min(KeptBefore(i))

\* C27: on a deny at time now the reported delay is taken from
\* oldest_timestamp - window_start (the time until the oldest kept call
\* leaves the window), with window_start = now - window_seconds and
\* oldest_timestamp the earliest timestamp kept after pruning: it is the whole
\* seconds of that difference, never negative and never more than the window.
C27_RetryIsOldestMinusWindowStart ==
    \A i \in 1..Len(calls) :
        ~calls[i].allowed =>
            LET window_start == calls[i].time - WindowTicks
                remaining == Min(KeptBefore(i)) - window_start
            IN  /\ Cardinality({m \in 1..(i - 1) :
                                   /\ calls[m].key = calls[i].key
                                   /\ calls[m].allowed
                                   /\ calls[m].time > window_start})
                     >= rate_limit_requests
                /\ calls[i].retry >= 0
                /\ calls[i].retry <= rate_limit_window
                /\ calls[i].retry * TicksPerSecond <= remaining
                /\ remaining < (calls[i].retry + 1) * TicksPerSecond

\* a deny one second and a half before the oldest kept call leaves the
\* window, and a deny with whole seconds left
C27_Witness ==
    /\ \E i \in 1..Len(calls) :
          /\ ~calls[i].allowed
          /\ calls[i].retry = 1
          /\ Min(KeptBefore(i)) - (calls[i].time - WindowTicks) = 3
    /\ \E i \in 1..Len(calls) :
          /\ ~calls[i].allowed
          /\ calls[i].retry = 2
          /\ Min(KeptBefore(i)) - (calls[i].time - WindowTicks) = 4

\* a key's window is entirely expired: it has an entry and every timestamp
\* of it is outside the window
Stale(k) ==
    /\ k \in stored
    /\ \A i \in 1..Len(rate_limit_storage[k]) :
           rate_limit_storage[k][i] < now - WindowTicks

\* C24 as claimed: a key's RateWindow is written and removed only by a task
\* that holds that key's lock, in admit and in the periodic sweep alike: every
\* step that changes the timestamps of a key or removes its entry is taken
\* while the key's lock is held.
C24_WindowTouchedOnlyUnderItsLock ==
    [][\A k \in Keys :
          (rate_limit_storage'[k] # rate_limit_storage[k]
             \/ (k \in stored) # (k \in stored'))
          => rate_limit_locks[k] # 0]_vars

\* the lock a call needs before it may touch its key's window
NeedsLock(c, l) == l = callers[c].key \/ l = GlobalLock

\* C25 as claimed: every gate keeps one lock per key, not a global one: a call
\* for a key never waits for a lock that is held for another key.
C25_NoCallWaitsForAnotherKeysLock ==
    \A c \in Callers : \A l \in DOMAIN rate_limit_locks :
        ( /\ callers[c].st = "waiting"
          /\ NeedsLock(c, l)
          /\ rate_limit_locks[l] # 0 )
        => callers[rate_limit_locks[l]].key = callers[c].key

\* C26 as claimed: the store does not grow without bound: a key whose window
\* is entirely expired and that gets no further call is eventually removed,
\* with its lock.
C26_ExpiredKeyEventuallyRemoved ==
    \A k \in Keys :
        Stale(k) ~> ((k \notin stored /\ k \notin lock_keys) \/ ~Stale(k))

\* the number of boundary characters of a text
BoundaryCount(d) == Cardinality({i \in 1..Len(d) : d[i] \in Boundary})

IsSuffix(a, b) == Len(a) <= Len(b) /\ SubSeq(b, Len(b) - Len(a) + 1, Len(b)) = a

\* C28 as claimed: after every content delta has been processed, the buffer
\* holds no boundary character followed by whitespace, also when the delta
\* held several boundaries.
C28_NoClosedBoundaryLeftInBuffer ==
    seg_pc = "open" => NoInnerBoundary(sentence_buffer)

\* C28: each delta closes at most one unit, the one that ends at the first
\* boundary of the buffered text.  After a delta has been processed the
\* buffer still holds a closed boundary (a boundary character followed by
\* whitespace or at its end) only when some delta brought more than one
\* boundary character; while every delta brings at most one, none is left.
C28_ClosedBoundaryLeftOnlyAfterSeveralInOneDelta ==
    seg_pc = "open" =>
        /\ Len(UnitsOf(yielded)) <= Len(fed)
        /\ sentence_pattern_search(sentence_buffer) > 0 =>
               \E j \in 1..Len(fed) : BoundaryCount(fed[j]) >= 2

\* one delta with two boundaries: the first unit went out, the second is
\* still in the buffer with its boundary and the whitespace after it
C28_Witness ==
    /\ seg_pc = "open"
    /\ fed = << <<"a", ".", " ", "b", ",", " ">> >>
    /\ UnitsOf(yielded) = << <<"a", ".">> >>
    /\ sentence_buffer = <<"b", ",", " ">>

\* the text received so far and the part of it the buffer no longer holds
Received == Concat(fed)
Consumed == Len(Received) - Len(sentence_buffer)

\* C29 as claimed: the buffer is the suffix of all content received that
\* starts right after the boundary character of the last completed unit, and
\* all content received when no unit was completed yet.
C29_BufferStartsRightAfterBoundary ==
    seg_pc = "open" =>
        /\ Consumed >= 0
        /\ sentence_buffer = SubSeq(Received, Consumed + 1, Len(Received))
        /\ UnitsOf(yielded) = <<>> => Consumed = 0
        /\ Consumed > 0 => Received[Consumed] \in Boundary

\* C29: the buffer is the suffix of all content received that starts right
\* after the match that closed the last completed unit: after its boundary
\* character and the one whitespace character that followed it, if one did;
\* it is all content received when no unit was completed yet.
C29_BufferStartsRightAfterMatch ==
    seg_pc = "open" =>
        /\ Consumed >= 0
        /\ sentence_buffer = SubSeq(Received, Consumed + 1, Len(Received))
        /\ UnitsOf(yielded) = <<>> <=> Consumed = 0
        /\ Consumed > 0 =>
              LET units == UnitsOf(yielded)
              IN  /\ \/ Received[Consumed] \in Boundary
                      \/ /\ Consumed > 1
                         /\ Received[Consumed] \in Whitespace
                         /\ Received[Consumed - 1] \in Boundary
                  /\ IsSuffix(units[Len(units)],
                              strip(SubSeq(Received, 1, Consumed)))

\* the first delta of the example: the buffer starts after the blank that
\* followed the full stop
C29_Witness ==
    /\ seg_pc = "open"
    /\ fed = <<Hello1>>
    /\ UnitsOf(yielded) = << <<"H","e","l","l","o"," ","w","o","r","l","d",".">> >>
    /\ sentence_buffer = <<"H","o","w"," ","a","r","e">>
    /\ Received[Consumed] \in Whitespace

\* C30 as claimed: the segmenter scans from a stored cursor on and never
\* examines again a character it has checked: over a session of N deltas of
\* total length L the characters examined are at most L, plus one per delta
\* for the look at the character after a boundary.
C30_ScanWorkLinearInTotalLength ==
    scan_work <= Len(Received) + Len(fed)

\* the segmenter's buffer after the content deltas ds, from an empty buffer
RECURSIVE BufferAfter(_)
BufferAfter(ds) ==
    IF ds = <<>> THEN <<>>
    ELSE OnContent(BufferAfter(SubSeq(ds, 1, Len(ds) - 1)),
                   Chunk("content", ds[Len(ds)], Len(ds))).buffer

\* the chunk the segmenter yields for the j-th content delta of the session
SegmentedChunk(j) ==
    OnContent(BufferAfter(SubSeq(fed, 1, j - 1)), Chunk("content", fed[j], j)).out

\* C31: with dispatch disabled a session opens no synthesis client and
\* schedules no synthesis call for any unit, the flushed one included, while
\* the content events it sends are those of the session with dispatch
\* enabled: with either setting the j-th content event is the one built from
\* the segmenter's chunk for the j-th delta, tagged sentence_complete with the
\* unit's text when the delta closed a unit, and the flush event carries the
\* trimmed rest of the buffer.
C31_DisabledDispatchOnlyDropsTheCalls ==
    /\ ~enable_tts => (opens = 0 /\ http_client = "none" /\ tasks = <<>>)
    /\ enable_tts => Len(tasks) = Len(UnitEvents)
    /\ Len(ContentEvents) \in {Len(fed), Len(fed) + 1}
    /\ \A j \in 1..Len(fed) : ContentEvents[j] = ContentEvent(SegmentedChunk(j), j)
    /\ Len(ContentEvents) = Len(fed) + 1 =>
           /\ strip(BufferAfter(fed)) # <<>>
           /\ ContentEvents[Len(fed) + 1]
                = ContentEvent(FlushChunk(strip(BufferAfter(fed))), Len(fed) + 1)

\* a session without dispatch that sent a unit closed by a delta and a
\* flushed unit, then done: no client, no call
C31_Witness ==
    /\ ~enable_tts
    /\ pc = "ended"
    /\ events # <<>>
    /\ events[Len(events)].type = "done"
    /\ Len(UnitEvents) = 2
    /\ UnitEvents[2].content = <<>>
    /\ UnitEvents[1].content # <<>>
    /\ tasks = <<>>
    /\ opens = 0

\* the admit calls of key k recorded so far, as indices into calls
CallsOf(k) == {i \in 1..Len(calls) : calls[i].key = k}

\* C32: sliding-window bound.  After any sequence of admit calls with a clock
\* that never goes back, the window stored for a key holds at most
\* max_requests timestamps, in non-decreasing order (the first is the oldest)
\* and all later than now - window_seconds as of the key's last call; so in
\* every interval (t - window_seconds, t] at most max_requests calls of one
\* key are allowed.
C32_SlidingWindowBound ==
    \A k \in Keys :
        LET w == rate_limit_storage[k]
        IN  /\ Len(w) <= rate_limit_requests
            /\ \A i \in 1..(Len(w) - 1) : w[i] <= w[i + 1]
            /\ CallsOf(k) # {} =>
                   \A i \in 1..Len(w) :
                       w[i] > calls[Max(CallsOf(k))].time - WindowTicks
            /\ \A i \in CallsOf(k) :
                   Cardinality({j \in CallsOf(k) :
                                   /\ j <= i
                                   /\ calls[j].allowed
                                   /\ calls[j].time > calls[i].time - WindowTicks})
                       <= rate_limit_requests

\* a full window of two different timestamps, after an older one was pruned
C32_Witness ==
    \E k \in Keys :
        /\ Len(rate_limit_storage[k]) = rate_limit_requests
        /\ rate_limit_storage[k][1] < rate_limit_storage[k][rate_limit_requests]
        /\ Cardinality({i \in CallsOf(k) : calls[i].allowed}) > rate_limit_requests
        /\ \E i \in CallsOf(k) : ~calls[i].allowed

\* C33: a denied admit call records nothing.  Apart from dropping the
\* timestamps that have left the window it leaves the window of its key as it
\* was, and it leaves the window of every other key untouched; so whether a
\* call is let in depends only on the calls of its key that were let in
\* before it, and denied calls in between never postpone the next admission.
C33_DeniedCallRecordsNothing ==
    /\ [][(Len(calls') = Len(calls) + 1 /\ ~calls'[Len(calls')].allowed) =>
            LET k == calls'[Len(calls')].key
                window_start == calls'[Len(calls')].time - WindowTicks
            IN  /\ rate_limit_storage'[k]
                     = SelectSeq(rate_limit_storage[k], LAMBDA x : x > window_start)
                /\ \A o \in Keys \ {k} :
                       rate_limit_storage'[o] = rate_limit_storage[o]]_vars
    /\ [](\A i \in 1..Len(calls) :
             calls[i].allowed <=>
                 Cardinality({m \in 1..(i - 1) :
                                 /\ calls[m].key = calls[i].key
                                 /\ calls[m].allowed
                                 /\ calls[m].time > calls[i].time - WindowTicks})
                     < rate_limit_requests)

\* a key denied while its window was full and let in again at the very tick
\* its oldest timestamps left the window
C33_Witness ==
    /\ Len(calls) = 4
    /\ \A i \in 1..4 : calls[i].key = "ip1"
    /\ calls[1].allowed /\ calls[1].time = 0
    /\ calls[2].allowed /\ calls[2].time = 0
    /\ ~calls[3].allowed /\ calls[3].time > 0
    /\ calls[4].allowed /\ calls[4].time = WindowTicks
    /\ rate_limit_storage["ip1"] = <<WindowTicks>>

\* C34: the segmenter neither loses nor duplicates text other than
\* whitespace.  While the stream is open the completed units followed by the
\* buffer are, whitespace removed, the content deltas received, whitespace
\* removed; when the stream has ended normally the completed units alone are
\* (the flushed one included); every completed unit is non-empty and trimmed.
C34_NoTextLostOrDuplicated ==
    /\ seg_pc = "open" =>
           RemoveWhitespace(Concat(UnitsOf(yielded))) \o RemoveWhitespace(sentence_buffer)
               = RemoveWhitespace(Received)
    /\ seg_pc = "done" =>
           RemoveWhitespace(Concat(UnitsOf(yielded))) = RemoveWhitespace(Received)
    /\ \A i \in 1..Len(UnitsOf(yielded)) :
           /\ UnitsOf(yielded)[i] # <<>>
           /\ strip(UnitsOf(yielded)[i]) = UnitsOf(yielded)[i]

\* a delta with two boundaries and a token after it, then done: three units,
\* the blanks between them dropped, nothing else
C34_Witness ==
    /\ seg_pc = "done"
    /\ fed = << <<"a", ".", " ", "b", ",", " ">>, <<"M">> >>
    /\ UnitsOf(yielded) = << <<"a", ".">>, <<"b", ",">>, <<"M">> >>

C36_FullContentIsConcatenationOfContents ==
    \A i \in 1..Len(events) :
        events[i].type = "done" =>
            events[i].full_content = Concat(ContentsOf(ContentEvents))

\* C37 as claimed: in a session that ends with done, the content events carry
\* the chunk_index values 1, 2, ..., n without gaps and the chunk_count field
\* of the done event equals n, the number of content events of the session.
C37_DoneCountsTheContentEvents ==
    \A i \in 1..Len(events) :
        events[i].type = "done" =>
            /\ \A j \in 1..Len(ContentEvents) : ContentEvents[j].chunk_index = j
            /\ events[i].chunk_count = Len(ContentEvents)

\* C38 as claimed: the synthesis client of a session is never closed while a
\* call of that session is still scheduled or in flight: every call the
\* session scheduled, the one for the flushed unit included, is issued on an
\* open client.
C38_ClientNotClosedWhileCallsPending ==
    http_client = "closed" => \A i \in 1..Len(tasks) : tasks[i].st # "scheduled"

\* the events that name a provider
ProviderEvents ==
    SelectSeq(events, LAMBDA e : e.type \in {"provider_connected", "content",
                                              "done", "error"})

\* C39 as claimed: a session uses one provider for its whole lifetime: the
\* provider probed and named in provider_connected, the provider streamed
\* from and the provider named in every content and terminal event are the
\* same, also when the request names no model and another request switches
\* the model between the probe and the start of streaming.
C39_OneProviderPerSession ==
    /\ \A i, j \in 1..Len(ProviderEvents) :
           ProviderEvents[i].provider = ProviderEvents[j].provider
    /\ (ProviderEvents # <<>> /\ locals.stream_model # <<>>) =>
           ProviderEvents[1].provider = locals.stream_model

\* C40: the background sweep is invisible to callers.  Wherever sweep runs
\* are placed between the admit calls, every call returns what it returns
\* without any sweep, namely deny exactly when max_requests earlier calls of
\* its key were let in inside the window; and a sweep removes only keys none
\* of whose timestamps is inside the window, leaving the others as they are.
C40_SweepInvisibleToCallers ==
    /\ [](\A i \in 1..Len(calls) :
             ~calls[i].allowed <=>
                 Cardinality({m \in 1..(i - 1) :
                                 /\ calls[m].key = calls[i].key
                                 /\ calls[m].allowed
                                 /\ calls[m].time > calls[i].time - WindowTicks})
                     >= rate_limit_requests)
    /\ [][\A k \in Keys :
            IF k \in stored /\ k \notin stored'
            THEN \A i \in 1..Len(rate_limit_storage[k]) :
                     ~(rate_limit_storage[k][i] > now - WindowTicks)
            ELSE Len(calls') = Len(calls) =>
                     rate_limit_storage'[k] = rate_limit_storage[k]]_vars

\* a sweep has removed the expired entry of one key and left the entry of
\* another key, whose timestamp is still inside the window; a further call
\* for the removed key is at its lock
C40_Witness ==
    \E k \in Keys :
        /\ k \notin stored
        /\ \E i \in CallsOf(k) : calls[i].allowed
        /\ \E c \in Callers : callers[c].key = k /\ callers[c].st = "holding"
        /\ \E o \in stored :
               /\ rate_limit_storage[o] # <<>>
               /\ rate_limit_storage[o][1] > now - WindowTicks

=============================================================================
